---- MODULE Spec2Model ----
(***************************************************************************)
(* Model of the /webhook endpoint of main.py (moneta_webhook) together     *)
(* with the helpers it calls: calculate_signature, build_xml_response,     *)
(* get_airtable_email and update_airtable_record.                          *)
(*                                                                         *)
(* A Python str is a sequence of characters.  Ordinary characters are      *)
(* one-character strings; four characters with special behaviour in the    *)
(* code paths below are written by name:                                   *)
(*   "CR"  U+000D, rewritten to U+000A when minidom parses the document    *)
(*   "LF"  U+000A                                                          *)
(*   "CTL" a character XML 1.0 forbids (U+0000, U+000B, U+FFFE, ...):       *)
(*         minidom.parseString raises ExpatError on it                     *)
(*   "SUR" a lone surrogate (json.loads of "\ud800"): str.encode("utf-8")  *)
(*         raises UnicodeEncodeError on it                                 *)
(***************************************************************************)
EXTENDS Integers, Sequences, FiniteSets, TLC

VARIABLES
    notif,      \* the notification the gateway redelivers (NoReq: any request may arrive)
    req,        \* req[d]: the HTTP request of delivery d
    pc,         \* pc[d]: position of the handler coroutine of delivery d
    params,     \* params[d]: the unified parameter dict
    email,      \* email[d]: the value returned by get_airtable_email
    response,   \* response[d]: the Response returned by the handler
    lookups,    \* lookups[d]: GET calls issued to the record store
    updates,    \* updates[d]: PATCH calls issued to the record store, in order
    get_answer, \* get_answer[d]: what the record store answered to the GET
    patch_answer, \* patch_answer[d]: what the record store answered to the PATCH
    steps,      \* steps[d]: the steps of the handler that delivery d has run
    fault,      \* fault[d]: the exception that left the handler, and where it rose
    record      \* record[id]: fields Amount and Status of the stored record

vars ==
    <<notif, req, pc, params, email, response, lookups, updates,
      get_answer, patch_answer, steps, fault, record>>

(***************************************************************************)
(* Bounds                                                                  *)
(***************************************************************************)
MaxDeliveries == 2

(***************************************************************************)
(* Characters and strings                                                  *)
(***************************************************************************)
Alphabet ==
    << "0", "1", "2", "3", "4", "5", "6", "7", "8", "9",
       "a", "b", "c", "d", "e", "f", "A", "B", "C", "D", "E", "F",
       "M", "T", "O", "R", "U", "S", "N", "o", "n", "x", ".", "&",
       "CR", "LF", "CTL", "SUR" >>

HexDigits ==
    << "0", "1", "2", "3", "4", "5", "6", "7", "8", "9",
       "a", "b", "c", "d", "e", "f" >>

Digits == {"0", "1", "2", "3", "4", "5", "6", "7", "8", "9"}

Code(c) == CHOOSE i \in 1..Len(Alphabet) : Alphabet[i] = c

\* str.encode("utf-8") succeeds unless the string holds a lone surrogate
Encodable(s) == \A i \in 1..Len(s) : s[i] # "SUR"

\* hashlib.md5(bytes).hexdigest(): a deterministic, order-sensitive digest
\* rendered as lower-case hexadecimal (16 bits stand in for MD5's 128)
RECURSIVE DigestFold(_, _)
DigestFold(h, s) ==
    IF s = << >> THEN h
    ELSE DigestFold((h * 33 + Code(Head(s))) % 65536, Tail(s))

Md5Hex(s) ==
    LET h == DigestFold(5381, s)
    IN  << HexDigits[((h \div 4096) % 16) + 1], HexDigits[((h \div 256) % 16) + 1],
           HexDigits[((h \div 16) % 16) + 1], HexDigits[(h % 16) + 1] >>

\* str.lower() on the characters of the alphabet
LowerChar(c) ==
    CASE c = "A" -> "a" [] c = "B" -> "b" [] c = "C" -> "c"
      [] c = "D" -> "d" [] c = "E" -> "e" [] c = "F" -> "f"
      [] c = "M" -> "m" [] c = "T" -> "t" [] c = "O" -> "o"
      [] c = "R" -> "r" [] c = "U" -> "u" [] c = "S" -> "s"
      [] c = "N" -> "n" [] OTHER -> c

Lower(s) == [i \in 1..Len(s) |-> LowerChar(s[i])]

(***************************************************************************)
(* Configuration (module level, read once from the environment)            *)
(***************************************************************************)
MNT_ID == << "M", "1" >>
INTEGRITY_CODE == << "S" >>

(***************************************************************************)
(* Dictionaries                                                            *)
(***************************************************************************)
EmptyMap == [k \in {} |-> << >>]

\* dict.get(k, default)
Get(p, k, default) == IF k \in DOMAIN p THEN p[k] ELSE default

\* for k, v in src.items(): dst[k] = v
Overwrite(dst, src) ==
    [k \in (DOMAIN dst) \cup (DOMAIN src) |->
        IF k \in DOMAIN src THEN src[k] ELSE dst[k]]

(***************************************************************************)
(* calculate_signature                                                     *)
(***************************************************************************)
data_to_sign(p) ==
    MNT_ID
    \o Get(p, "MNT_TRANSACTION_ID", << >>)
    \o Get(p, "MNT_OPERATION_ID", << >>)
    \o Get(p, "MNT_AMOUNT", << >>)
    \o Get(p, "MNT_CURRENCY_CODE", << >>)
    \o Get(p, "MNT_SUBSCRIBER_ID", << >>)
    \o Get(p, "MNT_TEST_MODE", << "0" >>)
    \o INTEGRITY_CODE

\* the value returned, or the exception raised by .encode("utf-8")
calculate_signature(p) ==
    IF Encodable(data_to_sign(p))
    THEN [exc |-> "", val |-> Md5Hex(data_to_sign(p))]
    ELSE [exc |-> "UnicodeEncodeError", val |-> << >>]

(***************************************************************************)
(* build_xml_response                                                      *)
(***************************************************************************)
\* ET.tostring: _escape_cdata replaces "&" (and "<", ">") by an entity
RECURSIVE EscapeCdata(_)
EscapeCdata(s) ==
    IF s = << >> THEN << >>
    ELSE IF Head(s) = "&" THEN << "&", "a", "m", "p", ";" >> \o EscapeCdata(Tail(s))
    ELSE << Head(s) >> \o EscapeCdata(Tail(s))

\* minidom.parseString on the character data of one element: entities are
\* resolved and line ends normalised (CR LF and CR become LF)
RECURSIVE ParseCdata(_)
ParseCdata(t) ==
    IF t = << >> THEN << >>
    ELSE IF Len(t) >= 5 /\ SubSeq(t, 1, 5) = << "&", "a", "m", "p", ";" >>
         THEN << "&" >> \o ParseCdata(SubSeq(t, 6, Len(t)))
    ELSE IF Len(t) >= 2 /\ t[1] = "CR" /\ t[2] = "LF"
         THEN << "LF" >> \o ParseCdata(SubSeq(t, 3, Len(t)))
    ELSE IF Head(t) = "CR" THEN << "LF" >> \o ParseCdata(Tail(t))
    ELSE << Head(t) >> \o ParseCdata(Tail(t))

\* expat accepts the character data
WellFormed(s) == \A i \in 1..Len(s) : s[i] # "CTL"

\* the text of an element in the document returned (tostring, parseString, toxml)
DomText(s) == ParseCdata(EscapeCdata(s))

NoDoc ==
    [MNT_ID |-> << >>, MNT_TRANSACTION_ID |-> << >>, MNT_RESULT_CODE |-> << >>,
     MNT_SIGNATURE |-> << >>, MNT_ATTRIBUTES |-> EmptyMap]

\* attributes: a dict from key to str (None is passed as EmptyMap)
build_xml_response(mnt_id, mnt_trx_id, result_code, attributes) ==
    LET sign_src == result_code \o mnt_id \o mnt_trx_id \o INTEGRITY_CODE
        texts == {mnt_id, mnt_trx_id, result_code}
                     \cup {attributes[k] : k \in DOMAIN attributes}
    IN  IF ~Encodable(sign_src)
        THEN [exc |-> "UnicodeEncodeError", doc |-> NoDoc]
        ELSE IF \E s \in texts : ~Encodable(s)
        THEN [exc |-> "UnicodeEncodeError", doc |-> NoDoc]
        ELSE IF \E s \in texts : ~WellFormed(s)
        THEN [exc |-> "ExpatError", doc |-> NoDoc]
        ELSE [exc |-> "",
              doc |-> [MNT_ID |-> DomText(mnt_id),
                       MNT_TRANSACTION_ID |-> DomText(mnt_trx_id),
                       MNT_RESULT_CODE |-> DomText(result_code),
                       MNT_SIGNATURE |-> Md5Hex(sign_src),
                       MNT_ATTRIBUTES |->
                           [k \in DOMAIN attributes |-> DomText(attributes[k])]]]

(***************************************************************************)
(* float(mnt_amount_rx) and json.dumps of the receipt line                 *)
(* (amounts of the model are written with digits, "." and "x")             *)
(***************************************************************************)
DotCount(s) == Cardinality({i \in 1..Len(s) : s[i] = "."})

\* float(s) returns: digits with at most one ".", at least one digit
FloatOk(s) ==
    /\ \A i \in 1..Len(s) : s[i] \in Digits \cup {"."}
    /\ DotCount(s) <= 1
    /\ \E i \in 1..Len(s) : s[i] \in Digits

RECURSIVE StripLeadingZeros(_)
StripLeadingZeros(s) ==
    IF Len(s) > 1 /\ Head(s) = "0" THEN StripLeadingZeros(Tail(s)) ELSE s

RECURSIVE StripTrailingZeros(_)
StripTrailingZeros(s) ==
    IF Len(s) > 1 /\ s[Len(s)] = "0"
    THEN StripTrailingZeros(SubSeq(s, 1, Len(s) - 1)) ELSE s

\* repr(float(s)) as json.dumps writes it: "10.00" gives 10.0
FloatRepr(s) ==
    LET dot == IF DotCount(s) = 0 THEN Len(s) + 1
               ELSE CHOOSE i \in 1..Len(s) : s[i] = "."
        ip  == SubSeq(s, 1, dot - 1)
        fp  == SubSeq(s, dot + 1, Len(s))
    IN  StripLeadingZeros(IF ip = << >> THEN << "0" >> ELSE ip)
        \o << "." >>
        \o StripTrailingZeros(IF fp = << >> THEN << "0" >> ELSE fp)

\* json.dumps([{"name": ..., "price": float(amount), "quantity": 1, ...}])
InventoryJson(amount) == << "[", "{", "price", ":" >> \o FloatRepr(amount) \o << "}", "]" >>

(***************************************************************************)
(* Requests                                                                *)
(***************************************************************************)
\* a JSON scalar as request.json() returns it, and str(v) of it
JStr(s) == [t |-> "str", s |-> s, n |-> 0]
JInt(n) == [t |-> "int", s |-> << >>, n |-> n]
JNull == [t |-> "null", s |-> << >>, n |-> 0]

PyStr(v) ==
    CASE v.t = "str" -> v.s
      [] v.t = "int" -> << HexDigits[v.n + 1] >>    \* a one-digit int
      [] v.t = "null" -> << "N", "o", "n", "e" >>

\* what request.json() gives: a dict, another JSON value, or an exception
JsonDict(d) == [kind |-> "dict", d |-> d]
JsonList == [kind |-> "list", d |-> EmptyMap]
JsonInvalid == [kind |-> "invalid", d |-> EmptyMap]
NoJson == [kind |-> "none", d |-> EmptyMap]

\* content_type: "form" starts with application/x-www-form-urlencoded, "json"
\* starts with application/json, "other" is any other header, "none" no header
Request(q, ct, f, j) == [query |-> q, content_type |-> ct, form |-> f, json |-> j]

NoReq == Request(EmptyMap, "unset", EmptyMap, NoJson)

(***************************************************************************)
(* The requests that may arrive                                            *)
(***************************************************************************)
Absent == << "ABSENT" >>

\* the dict of the fields that are present
Present(f) == [k \in {x \in DOMAIN f : f[x] # Absent} |-> f[k]]

UpperChar(c) ==
    CASE c = "a" -> "A" [] c = "b" -> "B" [] c = "c" -> "C"
      [] c = "d" -> "D" [] c = "e" -> "E" [] c = "f" -> "F" [] OTHER -> c

Upper(s) == [i \in 1..Len(s) |-> UpperChar(s[i])]

\* what the sender signs: its own field values in the protocol's order, an
\* absent test-mode flag written as testDefault
SenderString(body, testDefault) ==
    Get(body, "MNT_ID", << >>)
    \o Get(body, "MNT_TRANSACTION_ID", << >>)
    \o Get(body, "MNT_OPERATION_ID", << >>)
    \o Get(body, "MNT_AMOUNT", << >>)
    \o Get(body, "MNT_CURRENCY_CODE", << >>)
    \o Get(body, "MNT_SUBSCRIBER_ID", << >>)
    \o Get(body, "MNT_TEST_MODE", testDefault)
    \o INTEGRITY_CODE

SigKinds == {"lower", "upper", "notest", "wrong", "absent"}

SigValue(body, kind) ==
    CASE kind = "lower" -> Md5Hex(SenderString(body, << "0" >>))
      [] kind = "upper" -> Upper(Md5Hex(SenderString(body, << "0" >>)))
      [] kind = "notest" -> Md5Hex(SenderString(body, << >>))
      [] kind = "wrong" -> << "x" >>

Sign(body, kind) ==
    IF kind = "absent" THEN body
    ELSE Overwrite(body, [MNT_SIGNATURE |-> SigValue(body, kind)])

Notification(id, trx, amt, sub, test, kind) ==
    Sign(Present([MNT_ID |-> id, MNT_TRANSACTION_ID |-> trx,
                  MNT_OPERATION_ID |-> << "O", "1" >>, MNT_AMOUNT |-> amt,
                  MNT_CURRENCY_CODE |-> << "R", "U", "B" >>,
                  MNT_SUBSCRIBER_ID |-> sub, MNT_TEST_MODE |-> test]), kind)

IdValues ==
    {Absent, MNT_ID, << "M", "2" >>, << "M", "&" >>, << "M", "CR" >>, << "M", "CTL" >>}
TrxValues == {Absent, << "T", "1" >>, << "T", "CR" >>, << "T", "CTL" >>}
AmountValues == {Absent, << "1", "0", ".", "0", "0" >>, << "x" >>}
SubValues == {Absent, << "U" >>}
TestValues == {Absent, << "0" >>, << "1" >>}

QueryNotifs ==
    {Notification(id, trx, amt, sub, test, kind) :
        id \in IdValues, trx \in TrxValues, amt \in AmountValues,
        sub \in SubValues, test \in TestValues, kind \in SigKinds}

SmallNotifs ==
    {Notification(id, << "T", "1" >>, << "1", "0", ".", "0", "0" >>, Absent, test, kind) :
        id \in {MNT_ID, << "M", "2" >>}, test \in {Absent, << "1" >>},
        kind \in {"lower", "wrong"}}

AsJson(n) == [k \in DOMAIN n |-> JStr(n[k])]

\* JSON bodies whose values are no strings, or no encodable strings
TypedJsonDicts ==
    LET b == Notification(MNT_ID, << "T", "1" >>, << "1", "0", ".", "0", "0" >>,
                          Absent, Absent, "absent")
        t == Sign(Overwrite(b, [MNT_TEST_MODE |-> << "1" >>]), "lower")
        n == Sign(Overwrite(b, [MNT_AMOUNT |-> << "N", "o", "n", "e" >>]), "lower")
        u == Sign(Overwrite(b, [MNT_AMOUNT |-> << "SUR" >>]), "wrong")
    IN  { Overwrite(AsJson(t), [MNT_TEST_MODE |-> JInt(1)]),
          Overwrite(AsJson(n), [MNT_AMOUNT |-> JNull]),
          AsJson(u) }

\* a later channel that repeats some field of the query string
Overrides(q) ==
    {[MNT_ID |-> v] : v \in {MNT_ID, << "M", "2" >>}}
    \cup {[MNT_TEST_MODE |-> v] : v \in {<< "0" >>, << "1" >>}}
    \cup {[MNT_SIGNATURE |-> SigValue(q, k)] : k \in {"lower", "upper"}}
    \cup {[foo |-> << "1" >>]}
    \cup SmallNotifs

\* bodies that carry no parameter
EmptyBodies ==
    { << "none", EmptyMap, NoJson >>, << "other", EmptyMap, NoJson >>,
      << "form", EmptyMap, NoJson >>, << "json", EmptyMap, JsonDict(EmptyMap) >>,
      << "json", EmptyMap, JsonList >>, << "json", EmptyMap, JsonInvalid >> }

Requests ==
    {Request(n, "none", EmptyMap, NoJson) : n \in QueryNotifs}
    \cup {Request(q, b[1], b[2], b[3]) :
            q \in SmallNotifs \cup {EmptyMap, [foo |-> << "1" >>]}, b \in EmptyBodies}
    \cup {Request(EmptyMap, "form", n, NoJson) : n \in SmallNotifs}
    \cup {Request(EmptyMap, "json", EmptyMap, JsonDict(AsJson(n))) : n \in SmallNotifs}
    \cup {Request(EmptyMap, "json", EmptyMap, JsonDict(d)) : d \in TypedJsonDicts}
    \cup UNION {{Request(q, "form", o, NoJson) : o \in Overrides(q)} : q \in SmallNotifs}
    \cup UNION {{Request(q, "json", EmptyMap, JsonDict(AsJson(o))) : o \in Overrides(q)} :
                    q \in SmallNotifs}

\* the notifications a gateway redelivers: signed by the sender, in the query string
RedeliveredRequests ==
    {Request(Notification(MNT_ID, << "T", "1" >>, amt, Absent, test, "lower"),
             "none", EmptyMap, NoJson) :
        amt \in {<< "1", "0", ".", "0", "0" >>, << "x" >>}, test \in {Absent, << "1" >>}}

(***************************************************************************)
(* Record store (Airtable): what it answers, and what it holds             *)
(***************************************************************************)
\* the ids under which the store holds a record
RecordIds == {<< "T", "1" >>}

UnpaidRecord == [Amount |-> << >>, Status |-> "Unpaid"]

\* an answer to GET .../{record_id}: a timeout or transport error of the
\* client, or a status code with a body; email_kind is the shape of
\* fields["Email (from Resident)"] in a 200 answer, first its first element
GetAnswer(kind, status_code, json_ok, email_kind, first) ==
    [kind |-> kind, status_code |-> status_code, json_ok |-> json_ok,
     email_kind |-> email_kind, first |-> first]

\* the store is unreachable, or does not answer with the record
NoRecordAnswers ==
    {GetAnswer("timeout", 0, FALSE, "missing", << >>)}
    \cup {GetAnswer("http", c, FALSE, "missing", << >>) : c \in {404, 500}}
    \cup {GetAnswer("http", 200, FALSE, "missing", << >>)}
    \cup {GetAnswer("http", 200, TRUE, "missing", << >>)}

\* what the store may answer to a GET of record_id
GetAnswers(record_id) ==
    IF record_id \in RecordIds
    THEN NoRecordAnswers
         \cup {GetAnswer("http", 200, TRUE, "empty", << >>)}
         \cup {GetAnswer("http", 200, TRUE, "list", v) : v \in {<< "e" >>, << >>}}
    ELSE NoRecordAnswers

\* an answer to PATCH .../{record_id}; applied: the store wrote the fields
PatchAnswer(kind, status_code, applied) ==
    [kind |-> kind, status_code |-> status_code, applied |-> applied]

PatchAnswers ==
    {PatchAnswer("http", c, TRUE) : c \in {200, 201}}
    \cup {PatchAnswer("http", c, FALSE) : c \in {404, 422, 500}}
    \cup {PatchAnswer("timeout", 0, a) : a \in BOOLEAN}

\* the lookup as it would be without the "if not email" test on an empty list
get_airtable_email_NoEmptyTest(ans) ==
    IF ans.kind # "http" THEN [exc |-> "TimeoutException", val |-> << >>]
    ELSE IF ans.status_code # 200 THEN [exc |-> "HTTPException", val |-> << >>]
    ELSE IF ~ans.json_ok THEN [exc |-> "HTTPException", val |-> << >>]
    ELSE IF ans.email_kind = "missing" THEN [exc |-> "HTTPException", val |-> << >>]
    ELSE [exc |-> "", val |-> ans.first]

\* get_airtable_email: the value returned, or the exception raised
get_airtable_email(ans) ==
    IF ans.kind # "http" THEN [exc |-> "TimeoutException", val |-> << >>]
    ELSE IF ans.status_code = 404 THEN [exc |-> "HTTPException", val |-> << >>]
    ELSE IF ans.status_code # 200 THEN [exc |-> "HTTPException", val |-> << >>]
    ELSE IF ~ans.json_ok THEN [exc |-> "HTTPException", val |-> << >>]
    ELSE IF ans.email_kind \in {"missing", "empty"}
         THEN [exc |-> "HTTPException", val |-> << >>]
    ELSE [exc |-> "", val |-> ans.first]

\* update_airtable_record: "" when it returns, or the exception raised
update_airtable_record(ans) ==
    IF ans.kind # "http" THEN "TimeoutException"
    ELSE IF ans.status_code \notin {200, 201} THEN "HTTPException"
    ELSE ""

\* the fields of the PATCH payload
Payload(record_id, amount, status) ==
    [record_id |-> record_id, Amount |-> amount, Status |-> status]

(***************************************************************************)
(* moneta_webhook                                                          *)
(***************************************************************************)
Deliveries == DOMAIN pc

NoResponse ==
    [kind |-> "none", status_code |-> 0, media_type |-> "", text |-> "", doc |-> NoDoc]
PlainResponse(text) ==
    [kind |-> "plain", status_code |-> 200, media_type |-> "text/plain",
     text |-> text, doc |-> NoDoc]
XmlResponse(doc) ==
    [kind |-> "xml", status_code |-> 200, media_type |-> "application/xml",
     text |-> "", doc |-> doc]

has_query(r) == DOMAIN r.query # {}
has_form(r) == r.content_type = "form" /\ DOMAIN r.form # {}
has_json(r) == r.content_type = "json" /\ r.json.kind = "dict" /\ DOMAIN r.json.d # {}

\* the health check as it would be with the form channel left out
IsHealthCheck_NoForm(r) == ~(has_query(r) \/ has_json(r))

IsHealthCheck(r) == ~(has_query(r) \/ has_form(r) \/ has_json(r))

\* the merge as it would be with the query string written last
UnifyParams_QueryLast(r) ==
    LET p1 == IF r.content_type = "form" /\ has_form(r) THEN r.form ELSE EmptyMap
        p2 == IF r.content_type = "json" /\ has_json(r)
              THEN Overwrite(p1, [k \in DOMAIN r.json.d |-> PyStr(r.json.d[k])])
              ELSE p1
    IN  Overwrite(p2, r.query)

\* step 2: query parameters, then form fields, then JSON keys (stringified)
UnifyParams(r) ==
    LET p1 == Overwrite(EmptyMap, r.query)
        p2 == IF r.content_type = "form" /\ has_form(r)
              THEN Overwrite(p1, r.form) ELSE p1
    IN  IF r.content_type = "json" /\ has_json(r)
        THEN Overwrite(p2, [k \in DOMAIN r.json.d |-> PyStr(r.json.d[k])])
        ELSE p2

mnt_id_rx(p) == Get(p, "MNT_ID", << >>)
mnt_trx_id_rx(p) == Get(p, "MNT_TRANSACTION_ID", << >>)
mnt_signature_rx(p) == Lower(Get(p, "MNT_SIGNATURE", << >>))
mnt_amount_rx(p) == Get(p, "MNT_AMOUNT", << >>)
mnt_test_mode_rx(p) == Get(p, "MNT_TEST_MODE", << "0" >>)

status_value(p) == IF mnt_test_mode_rx(p) = << "1" >> THEN "Test Paid" ELSE "Paid"

NoFault == [exc |-> "", at |-> ""]
Fault(exc, at) == [exc |-> exc, at |-> at]

\* return Response(content=xml, ...) unless building the document raised
Reply(built, ran) ==
    IF built.exc = ""
    THEN [pc |-> "done", response |-> XmlResponse(built.doc), fault |-> NoFault,
          steps |-> ran]
    ELSE [pc |-> "fault", response |-> NoResponse,
          fault |-> Fault(built.exc, "build_xml_response"), steps |-> ran]

\* attributes = {k: v for k, v in attributes.items() if v}
SuccessAttributes(amount, mail) ==
    LET all == [INVENTORY |-> InventoryJson(amount), CUSTOMER |-> mail]
    IN  [k \in {x \in DOMAIN all : all[x] # << >>} |-> all[k]]

\* lines 371-436: from the request to the first record-store call
BeforeLookup(r) ==
    LET p == UnifyParams(r)
        calc_sig == calculate_signature(p)
    IN  IF IsHealthCheck(r)
        THEN [pc |-> "done", response |-> PlainResponse("OK"), fault |-> NoFault,
              steps |-> << "health" >>]
        ELSE IF mnt_id_rx(p) # MNT_ID
        THEN Reply(build_xml_response(mnt_id_rx(p), mnt_trx_id_rx(p),
                                      << "5", "0", "0" >>, EmptyMap),
                   << "health", "unify", "merchant" >>)
        ELSE IF calc_sig.exc # ""
        THEN [pc |-> "fault", response |-> NoResponse,
              fault |-> Fault(calc_sig.exc, "calculate_signature"),
              steps |-> << "health", "unify", "merchant", "signature" >>]
        ELSE IF calc_sig.val # mnt_signature_rx(p)
        THEN Reply(build_xml_response(MNT_ID, mnt_trx_id_rx(p),
                                      << "5", "0", "0" >>, EmptyMap),
                   << "health", "unify", "merchant", "signature" >>)
        ELSE [pc |-> "lookup", response |-> NoResponse, fault |-> NoFault,
              steps |-> << "health", "unify", "merchant", "signature", "lookup" >>]

\* the end of the handler as it would be with "except HTTPException" alone
AfterUpdate_HttpOnly(p, mail, exc, ran) ==
    IF exc = "HTTPException"
    THEN Reply(build_xml_response(MNT_ID, mnt_trx_id_rx(p), << "5", "0", "0" >>, EmptyMap),
               ran)
    ELSE IF exc # "" \/ ~FloatOk(mnt_amount_rx(p))
    THEN [pc |-> "fault", response |-> NoResponse,
          fault |-> Fault(IF exc # "" THEN exc ELSE "ValueError", "moneta_webhook"),
          steps |-> ran]
    ELSE Reply(build_xml_response(MNT_ID, mnt_trx_id_rx(p), << "2", "0", "0" >>,
                                  SuccessAttributes(mnt_amount_rx(p), mail)),
               ran)

\* lines 447-490: from the end of the update call to the end of the handler
AfterUpdate(p, mail, exc, ran) ==
    IF exc # ""
    THEN Reply(build_xml_response(MNT_ID, mnt_trx_id_rx(p), << "5", "0", "0" >>, EmptyMap),
               ran)
    ELSE IF ~FloatOk(mnt_amount_rx(p))
    THEN [pc |-> "fault", response |-> NoResponse,
          fault |-> Fault("ValueError", "float"), steps |-> ran]
    ELSE Reply(build_xml_response(MNT_ID, mnt_trx_id_rx(p), << "2", "0", "0" >>,
                                  SuccessAttributes(mnt_amount_rx(p), mail)),
               ran)

Inbox == IF notif = NoReq THEN Requests ELSE {notif}

\* a request arrives; the handler runs up to its first await on the store
Receive(d) ==
    /\ pc[d] = "idle"
    /\ \E r \in Inbox :
         LET out == BeforeLookup(r)
         IN  /\ req' = [req EXCEPT ![d] = r]
             /\ params' = [params EXCEPT ![d] =
                              IF IsHealthCheck(r) THEN EmptyMap ELSE UnifyParams(r)]
             /\ pc' = [pc EXCEPT ![d] = out.pc]
             /\ response' = [response EXCEPT ![d] = out.response]
             /\ fault' = [fault EXCEPT ![d] = out.fault]
             /\ steps' = [steps EXCEPT ![d] = out.steps]
             /\ lookups' = [lookups EXCEPT ![d] =
                              IF out.pc = "lookup" THEN @ + 1 ELSE @]
    /\ UNCHANGED <<notif, email, updates, get_answer, patch_answer, record>>

\* get_airtable_email ends; the handler issues the update (or the fault leaves it)
LookupReturn(d) ==
    /\ pc[d] = "lookup"
    /\ \E ans \in GetAnswers(mnt_trx_id_rx(params[d])) :
         LET got == get_airtable_email(ans)
             p == params[d]
         IN  /\ get_answer' = [get_answer EXCEPT ![d] = ans]
             /\ email' = [email EXCEPT ![d] = got.val]
             /\ pc' = [pc EXCEPT ![d] = IF got.exc = "" THEN "update" ELSE "fault"]
             /\ fault' = [fault EXCEPT ![d] =
                             IF got.exc = "" THEN NoFault
                             ELSE Fault(got.exc, "get_airtable_email")]
             /\ steps' = [steps EXCEPT ![d] =
                             IF got.exc = "" THEN Append(@, "update") ELSE @]
             /\ updates' = [updates EXCEPT ![d] =
                              IF got.exc = ""
                              THEN Append(@, Payload(mnt_trx_id_rx(p), mnt_amount_rx(p),
                                                     status_value(p)))
                              ELSE @]
    /\ UNCHANGED <<notif, req, params, response, lookups, patch_answer, record>>

\* update_airtable_record ends; the handler builds its answer
UpdateReturn(d) ==
    /\ pc[d] = "update"
    /\ \E ans \in PatchAnswers :
         LET exc == update_airtable_record(ans)
             sent == updates[d][Len(updates[d])]
             out == AfterUpdate(params[d], email[d], exc, Append(steps[d], "respond"))
         IN  /\ record' = IF ans.applied
                          THEN [record EXCEPT ![sent.record_id] =
                                   [Amount |-> sent.Amount, Status |-> sent.Status]]
                          ELSE record
             /\ patch_answer' = [patch_answer EXCEPT ![d] = ans]
             /\ pc' = [pc EXCEPT ![d] = out.pc]
             /\ response' = [response EXCEPT ![d] = out.response]
             /\ fault' = [fault EXCEPT ![d] = out.fault]
             /\ steps' = [steps EXCEPT ![d] = out.steps]
    /\ UNCHANGED <<notif, req, params, email, lookups, updates, get_answer>>

NoGetAnswer == GetAnswer("none", 0, FALSE, "missing", << >>)
NoPatchAnswer == PatchAnswer("none", 0, FALSE)

Start(D) ==
    /\ req = [d \in D |-> NoReq]
    /\ pc = [d \in D |-> "idle"]
    /\ params = [d \in D |-> EmptyMap]
    /\ email = [d \in D |-> << >>]
    /\ response = [d \in D |-> NoResponse]
    /\ lookups = [d \in D |-> 0]
    /\ updates = [d \in D |-> << >>]
    /\ get_answer = [d \in D |-> NoGetAnswer]
    /\ patch_answer = [d \in D |-> NoPatchAnswer]
    /\ steps = [d \in D |-> << >>]
    /\ fault = [d \in D |-> NoFault]
    /\ record = [id \in RecordIds |-> UnpaidRecord]

\* one delivery of any request
Init == notif = NoReq /\ Start({1})

\* the gateway delivers one signed notification up to MaxDeliveries times
InitRedelivery == notif \in RedeliveredRequests /\ Start(1..MaxDeliveries)

Next ==
    \/ \E d \in Deliveries : Receive(d)
    \/ \E d \in Deliveries : LookupReturn(d)
    \/ \E d \in Deliveries : UpdateReturn(d)

Spec == Init /\ [][Next]_vars

SpecRedelivery == InitRedelivery /\ [][Next]_vars

(***************************************************************************)
(* Vocabulary of the properties, stated on the requests and the answers    *)
(***************************************************************************)
Finished(d) == pc[d] \in {"done", "fault"}
Handled(d) == pc[d] # "idle"

\* the three transport channels of a request
QueryChannel(r) == r.query
FormChannel(r) == IF r.content_type = "form" THEN r.form ELSE EmptyMap
JsonChannel(r) ==
    IF r.content_type = "json" /\ r.json.kind = "dict" THEN r.json.d ELSE EmptyMap

CarriesParams(r) ==
    (DOMAIN QueryChannel(r)) \cup (DOMAIN FormChannel(r)) \cup (DOMAIN JsonChannel(r)) # {}

\* a field of the mapping, an absent one read as the empty string
Field(p, k) == IF k \in DOMAIN p THEN p[k] ELSE << >>

TestModeFlag(p) == IF "MNT_TEST_MODE" \in DOMAIN p THEN p["MNT_TEST_MODE"] ELSE << "0" >>

InboundConcat(p) ==
    Field(p, "MNT_ID") \o Field(p, "MNT_TRANSACTION_ID") \o Field(p, "MNT_OPERATION_ID")
    \o Field(p, "MNT_AMOUNT") \o Field(p, "MNT_CURRENCY_CODE")
    \o Field(p, "MNT_SUBSCRIBER_ID") \o TestModeFlag(p) \o INTEGRITY_CODE

SameIgnoringCase(a, b) == Lower(a) = Lower(b)

SignatureMatches(p) ==
    /\ Encodable(InboundConcat(p))
    /\ SameIgnoringCase(Field(p, "MNT_SIGNATURE"), Md5Hex(InboundConcat(p)))

MerchantOk(p) == Field(p, "MNT_ID") = MNT_ID

Validated(d) ==
    CarriesParams(req[d]) /\ MerchantOk(params[d]) /\ SignatureMatches(params[d])

Rejected(d) ==
    /\ CarriesParams(req[d])
    /\ \/ ~MerchantOk(params[d])
       \/ /\ MerchantOk(params[d])
          /\ Encodable(InboundConcat(params[d]))
          /\ ~SignatureMatches(params[d])

ExpectedStatus(p) == IF TestModeFlag(p) = << "1" >> THEN "Test Paid" ELSE "Paid"

ExpectedUpdate(p) ==
    Payload(Field(p, "MNT_TRANSACTION_ID"), Field(p, "MNT_AMOUNT"), ExpectedStatus(p))

OutboundDigest(code, id, trx) == Md5Hex(code \o id \o trx \o INTEGRITY_CODE)

\* a markup envelope with this result code, answered with HTTP 200
IsEnvelope(resp, code) ==
    /\ resp.kind = "xml"
    /\ resp.status_code = 200
    /\ resp.doc.MNT_RESULT_CODE = code

UpdateAnswered(d) == patch_answer[d].kind # "none"
UpdateSucceeded(d) ==
    patch_answer[d].kind = "http" /\ patch_answer[d].status_code \in {200, 201}
UpdateFailed(d) == UpdateAnswered(d) /\ ~UpdateSucceeded(d)

LookupAnswered(d) == get_answer[d].kind # "none"
LookupSucceeded(d) ==
    /\ get_answer[d].kind = "http"
    /\ get_answer[d].status_code = 200
    /\ get_answer[d].json_ok
    /\ get_answer[d].email_kind = "list"
LookupFailed(d) == LookupAnswered(d) /\ ~LookupSucceeded(d)

(***************************************************************************)
(* C1: every notification with the configured merchant id and a matching   *)
(* signature has, once handled, exactly one update call, for the record    *)
(* MNT_TRANSACTION_ID, with the received amount and the status derived     *)
(* from MNT_TEST_MODE, whatever the record store answered to other calls.  *)
(***************************************************************************)
C1_ExactlyOneUpdate ==
    \A d \in Deliveries :
        (Finished(d) /\ Validated(d)) => updates[d] = << ExpectedUpdate(params[d]) >>

(***************************************************************************)
(* C2: a non-empty notification rejected for its merchant id or for its    *)
(* signature makes no record-store call and is answered by a markup        *)
(* envelope with result code 500, HTTP 200 and no attributes; the merchant *)
(* check comes first and the first failing check ends the handling.        *)
(***************************************************************************)
C2_RejectedGetsFailureEnvelope ==
    \A d \in Deliveries :
        (Finished(d) /\ Rejected(d)) =>
            /\ lookups[d] = 0
            /\ updates[d] = << >>
            /\ IsEnvelope(response[d], << "5", "0", "0" >>)
            /\ response[d].doc.MNT_ATTRIBUTES = EmptyMap
            /\ steps[d] = IF MerchantOk(params[d])
                          THEN << "health", "unify", "merchant", "signature" >>
                          ELSE << "health", "unify", "merchant" >>

C4_HealthCheckIffNoParams ==
    \A d \in Deliveries :
        Handled(d) =>
            /\ (response[d] = PlainResponse("OK")) <=> ~CarriesParams(req[d])
            /\ ~CarriesParams(req[d]) =>
                   /\ pc[d] = "done"
                   /\ steps[d] = << "health" >>
                   /\ lookups[d] = 0
                   /\ updates[d] = << >>
            /\ CarriesParams(req[d]) =>
                   /\ Len(steps[d]) >= 3
                   /\ steps[d][3] = "merchant"

\* a JSON body that is no object was answered as a health check
C4_Witness ==
    \E d \in Deliveries :
        /\ Handled(d)
        /\ req[d].content_type = "json"
        /\ req[d].json.kind = "list"
        /\ response[d] = PlainResponse("OK")

(***************************************************************************)
(* C5: in every markup response the embedded MNT_SIGNATURE is the digest   *)
(* of the embedded result code, the embedded MNT_ID, the embedded          *)
(* MNT_TRANSACTION_ID and the integrity secret, in that order.             *)
(***************************************************************************)
C5_OutboundSignatureRoundTrip ==
    \A d \in Deliveries :
        response[d].kind = "xml" =>
            response[d].doc.MNT_SIGNATURE =
                OutboundDigest(response[d].doc.MNT_RESULT_CODE, response[d].doc.MNT_ID,
                               response[d].doc.MNT_TRANSACTION_ID)

(***************************************************************************)
(* C6: with the correct merchant id, the signature check passes exactly    *)
(* when the received MNT_SIGNATURE equals, letter case ignored, the digest *)
(* of merchant id + transaction id + operation id + amount + currency +    *)
(* subscriber id + test-mode flag + secret (absent fields empty, absent    *)
(* flag "0"), and computing the digest never raises.                       *)
(***************************************************************************)
C6_SignatureCheck ==
    \A d \in Deliveries :
        (Handled(d) /\ CarriesParams(req[d]) /\ MerchantOk(params[d])) =>
            /\ fault[d].at # "calculate_signature"
            /\ (\E i \in 1..Len(steps[d]) : steps[d][i] = "lookup")
                   <=> SameIgnoringCase(Field(params[d], "MNT_SIGNATURE"),
                                        Md5Hex(InboundConcat(params[d])))

\* per field name, the value of the latest channel that carries it
LatestSource(r) ==
    [k \in (DOMAIN QueryChannel(r)) \cup (DOMAIN FormChannel(r))
               \cup (DOMAIN JsonChannel(r)) |->
        IF k \in DOMAIN JsonChannel(r) THEN PyStr(JsonChannel(r)[k])
        ELSE IF k \in DOMAIN FormChannel(r) THEN FormChannel(r)[k]
        ELSE QueryChannel(r)[k]]

(***************************************************************************)
(* C7: the unified mapping holds, for every field name of any channel, the *)
(* value of the latest channel that carries it (query, then form, then     *)
(* JSON stringified), and no other field name.                             *)
(***************************************************************************)
C7_LaterSourceWins ==
    \A d \in Deliveries :
        (Handled(d) /\ CarriesParams(req[d])) => params[d] = LatestSource(req[d])

\* a JSON key repeated a query parameter with another value
C7_Witness ==
    \E d \in Deliveries :
        /\ Handled(d)
        /\ \E k \in (DOMAIN QueryChannel(req[d])) \cap (DOMAIN JsonChannel(req[d])) :
               /\ QueryChannel(req[d])[k] # PyStr(JsonChannel(req[d])[k])
               /\ params[d][k] = PyStr(JsonChannel(req[d])[k])

(***************************************************************************)
(* C8: every delivery of the same validated notification issues its own    *)
(* update with the same record, amount and status (none is skipped), and   *)
(* the record's Amount and Status are those a single delivery leaves.      *)
(***************************************************************************)
C8_RedeliveryIssuesSameUpdate ==
    notif # NoReq =>
        /\ \A d \in Deliveries :
               Finished(d) => updates[d] = << ExpectedUpdate(notif.query) >>
        /\ LET id == Field(notif.query, "MNT_TRANSACTION_ID")
               target == [Amount |-> Field(notif.query, "MNT_AMOUNT"),
                          Status |-> ExpectedStatus(notif.query)]
           IN  /\ record[id] \in {UnpaidRecord, target}
               /\ (\E d \in Deliveries : patch_answer[d].applied) => record[id] = target

(***************************************************************************)
(* C9: when the update call succeeds, the handler returns a markup         *)
(* envelope with result code 200, HTTP 200, the configured merchant id and *)
(* the received transaction id, signed; no such notification ends in a     *)
(* failure response or a fault, whatever the amount string.                *)
(***************************************************************************)
C9_SuccessfulUpdateAnswers200 ==
    \A d \in Deliveries :
        UpdateSucceeded(d) =>
            /\ pc[d] = "done"
            /\ IsEnvelope(response[d], << "2", "0", "0" >>)
            /\ response[d].doc.MNT_ID = MNT_ID
            /\ response[d].doc.MNT_TRANSACTION_ID = Field(params[d], "MNT_TRANSACTION_ID")
            /\ response[d].doc.MNT_SIGNATURE =
                   OutboundDigest(<< "2", "0", "0" >>, MNT_ID,
                                  Field(params[d], "MNT_TRANSACTION_ID"))

(***************************************************************************)
(* C10: the recipient lookup is made after the signature check passes and  *)
(* before the update: an update is issued only after the lookup of that    *)
(* notification succeeded, and a failed lookup leaves the handler as a     *)
(* fault, with no record-store write and no response envelope.             *)
(***************************************************************************)
C10_LookupBeforeUpdate ==
    \A d \in Deliveries :
        /\ lookups[d] > 0 => Validated(d)
        /\ updates[d] # << >> => (lookups[d] = 1 /\ LookupSucceeded(d))
        /\ LookupFailed(d) =>
               /\ pc[d] = "fault"
               /\ fault[d].at = "get_airtable_email"
               /\ updates[d] = << >>
               /\ response[d] = NoResponse
               /\ \A id \in RecordIds : record[id] = UnpaidRecord

\* the record store answered 200 with an empty recipient field
C10_Witness ==
    \E d \in Deliveries :
        /\ get_answer[d].kind = "http"
        /\ get_answer[d].status_code = 200
        /\ get_answer[d].json_ok
        /\ get_answer[d].email_kind = "empty"
        /\ pc[d] = "fault"

====
